---- MODULE Spec2Model ----
(***************************************************************************)
(* Model of the fluent query builder (QueryBuilder, the immutable          *)
(* accumulator) and of PrismaTranslator (the translation engine).          *)
(*                                                                         *)
(* JavaScript values are tagged records [k |-> tag, v |-> payload]:        *)
(*   num/str/bool/null  primitives                                         *)
(*   arr                an array, v is the sequence of its elements        *)
(*   obj                a plain object, v is the sequence of its own       *)
(*                      properties [key, val] in insertion order           *)
(*   err                a thrown Error, v is its message                   *)
(* Objects are values in the machines that only call the library; the      *)
(* machine in which the caller also writes to the objects it holds keeps   *)
(* them in heap, by address.                                               *)
(* A string that is split on "." (a field path) is a sequence of lexemes:  *)
(* the separator "." or a non-empty dot-free piece. <<"author", ".",       *)
(* "email">> is "author.email", <<>> is "" and <<"a", ".", ".", "b">> is   *)
(* "a..b".                                                                 *)
(***************************************************************************)
EXTENDS Integers, Sequences, FiniteSets, TLC

VARIABLES builders, call, outcome, heap

vars == <<builders, call, outcome, heap>>

----------------------------------------------------------------------------
(* JavaScript values *)

Num(n) == [k |-> "num", v |-> n]
Str(s) == [k |-> "str", v |-> s]
Bool(b) == [k |-> "bool", v |-> b]
Null == [k |-> "null", v |-> 0]
Undefined == [k |-> "undefined", v |-> 0]
Arr(a) == [k |-> "arr", v |-> a]
Obj(p) == [k |-> "obj", v |-> p]
Err(m) == [k |-> "err", v |-> m]
Prop(name, x) == [key |-> name, val |-> x]

IsErr(x) == x.k = "err"
IsArray(x) == x.k = "arr"
\* typeof x === "object" && x !== null && !Array.isArray(x)
IsPlainObject(x) == x.k = "obj"

\* key in o, for an object o (own properties only: the model draws no key
\* from the names Object.prototype defines)
HasKey(o, name) == \E i \in 1..Len(o.v) : o.v[i].key = name
\* o[key]
GetKey(o, name) ==
  IF HasKey(o, name)
  THEN o.v[CHOOSE i \in 1..Len(o.v) : o.v[i].key = name].val
  ELSE Undefined
\* o[key] = x: an existing property keeps its position, a new one goes last
SetKey(o, name, x) ==
  IF HasKey(o, name)
  THEN Obj([i \in 1..Len(o.v) |->
              IF o.v[i].key = name THEN Prop(name, x) ELSE o.v[i]])
  ELSE Obj(Append(o.v, Prop(name, x)))
Keys(o) == {o.v[i].key : i \in 1..Len(o.v)}

\* The first thrown error of a sequence of results evaluated left to right
FirstErr(rs) == rs[CHOOSE i \in 1..Len(rs) : IsErr(rs[i]) /\ \A j \in 1..(i - 1) : ~IsErr(rs[j])]
AnyErr(rs) == \E i \in 1..Len(rs) : IsErr(rs[i])

\* String.prototype.split("."): the pieces between separators, joined
RECURSIVE SplitFrom(_, _, _, _)
SplitFrom(s, i, cur, acc) ==
  IF i > Len(s) THEN Append(acc, cur)
  ELSE IF s[i] = "." THEN SplitFrom(s, i + 1, "", Append(acc, cur))
  ELSE SplitFrom(s, i + 1, cur \o s[i], acc)
Split(s) == SplitFrom(s, 1, "", <<>>)

\* String.prototype.toLowerCase on the strings the model draws
ToLowerCase(s) ==
  CASE s = "ASC" -> "asc"
    [] s = "DESC" -> "desc"
    [] s = "Asc" -> "asc"
    [] OTHER -> s

\* The number NaN, as an integer no call draws otherwise. A comparison with
\* NaN is false and arithmetic on NaN gives NaN.
NaN == -1000000
Lt(a, b) == a # NaN /\ b # NaN /\ a < b
Gt(a, b) == a # NaN /\ b # NaN /\ a > b
Ge(a, b) == a # NaN /\ b # NaN /\ a >= b
Minus(a, b) == IF a = NaN \/ b = NaN THEN NaN ELSE a - b
Times(a, b) == IF a = NaN \/ b = NaN THEN NaN ELSE a * b

----------------------------------------------------------------------------
(* PrismaTranslator *)

\* _buildNestedOrderBy(path, direction)
RECURSIVE _buildNestedOrderBy(_, _)
_buildNestedOrderBy(path, direction) ==
  IF Len(path) = 0 THEN Obj(<<>>)
  ELSE IF Len(path) = 1 THEN Obj(<<Prop(path[1], Str(direction))>>)
  ELSE Obj(<<Prop(Head(path), _buildNestedOrderBy(Tail(path), direction))>>)

\* The element sorts.map(...) builds for one sort
SortEntry(sort) == _buildNestedOrderBy(Split(sort.field), ToLowerCase(sort.direction))

\* Mutant: several sorts are folded into one object, a later sort on the
\* same field replacing the earlier
RECURSIVE OrderByFrom(_, _, _)
OrderByFrom(result, sorts, i) ==
  IF i > Len(sorts) THEN result
  ELSE OrderByFrom(SetKey(result, SortEntry(sorts[i]).v[1].key, SortEntry(sorts[i]).v[1].val),
                   sorts, i + 1)
translateOrderBy_OneObject(sorts) == OrderByFrom(Obj(<<>>), sorts, 1)
\* Mutant: one sort is returned as a list of one object too
translateOrderBy_AlwaysList(sorts) ==
  IF Len(sorts) = 0 THEN Obj(<<>>)
  ELSE Arr([i \in 1..Len(sorts) |-> SortEntry(sorts[i])])
\* translateOrderBy(sorts)
translateOrderBy(sorts) ==
  IF Len(sorts) = 0 THEN Obj(<<>>)
  ELSE IF Len(sorts) = 1 THEN SortEntry(sorts[1])
  ELSE Arr([i \in 1..Len(sorts) |-> SortEntry(sorts[i])])

\* Mutant: one entry per include() call, a repeated name repeated
translateInclude_KeepDuplicates(includes) ==
  Obj([i \in 1..Len(includes) |-> Prop(includes[i], Bool(TRUE))])
\* translateInclude(includes): result[include] = true for each, in order
RECURSIVE IncludeFrom(_, _, _)
IncludeFrom(result, includes, i) ==
  IF i > Len(includes) THEN result
  ELSE IncludeFrom(SetKey(result, includes[i], Bool(TRUE)), includes, i + 1)
translateInclude(includes) == IncludeFrom(Obj(<<>>), includes, 1)

\* Mutant: the value is attached at the first segment, the rest is dropped
_buildNestedWhere_FirstOnly(path, value) ==
  IF Len(path) = 0 THEN value ELSE Obj(<<Prop(path[1], value)>>)
\* _buildNestedWhere(path, value)
RECURSIVE _buildNestedWhere(_, _)
_buildNestedWhere(path, value) ==
  IF Len(path) = 0 THEN value
  ELSE IF Len(path) = 1 THEN Obj(<<Prop(path[1], value)>>)
  ELSE Obj(<<Prop(Head(path), _buildNestedWhere(Tail(path), value))>>)

\* Mutant: a shallow merge, every key of where2 overwrites
RECURSIVE AssignFrom(_, _, _)
AssignFrom(result, where2, i) ==
  IF i > Len(where2.v) THEN result
  ELSE AssignFrom(SetKey(result, where2.v[i].key, where2.v[i].val), where2, i + 1)
_deepMergeWhere_Shallow(where1, where2) == AssignFrom(where1, where2, 1)
\* _deepMergeWhere(where1, where2): result = {...where1}, then the loop over
\* the own keys of where2 in order (DeepMergeFrom is the loop from key i on)
RECURSIVE _deepMergeWhere(_, _)
RECURSIVE DeepMergeFrom(_, _, _)
DeepMergeFrom(result, where2, i) ==
  IF i > Len(where2.v) THEN result
  ELSE
    LET key == where2.v[i].key
        value2 == where2.v[i].val
        value1 == GetKey(result, key)
        next ==
          IF key = "AND" \/ key = "OR" \/ key = "NOT"
          THEN SetKey(result, key, value2)
          ELSE IF HasKey(result, key)
          THEN IF IsPlainObject(value1) /\ IsPlainObject(value2)
               THEN SetKey(result, key, _deepMergeWhere(value1, value2))
               ELSE SetKey(result, key, value2)
          ELSE SetKey(result, key, value2)
    IN DeepMergeFrom(next, where2, i + 1)
_deepMergeWhere(where1, where2) == DeepMergeFrom(where1, where2, 1)

\* value[i] of an array value (0-based in the source)
Elem(value, i) == IF i + 1 <= Len(value.v) THEN value.v[i + 1] ELSE Undefined

\* _translateOperator with the arity test and the IS_NULL operand left open
OperatorVariant(operator, value, arityOk, nullOperand) ==
  CASE operator = "EQ" -> Obj(<<Prop("equals", value)>>)
    [] operator = "NE" -> Obj(<<Prop("not", value)>>)
    [] operator = "GT" -> Obj(<<Prop("gt", value)>>)
    [] operator = "GTE" -> Obj(<<Prop("gte", value)>>)
    [] operator = "LT" -> Obj(<<Prop("lt", value)>>)
    [] operator = "LTE" -> Obj(<<Prop("lte", value)>>)
    [] operator = "IN" -> Obj(<<Prop("in", value)>>)
    [] operator = "NOT_IN" -> Obj(<<Prop("notIn", value)>>)
    [] operator = "LIKE" -> Obj(<<Prop("contains", value), Prop("mode", Str("default"))>>)
    [] operator = "ILIKE" -> Obj(<<Prop("contains", value), Prop("mode", Str("insensitive"))>>)
    [] operator = "BETWEEN" ->
         IF ~IsArray(value) \/ ~arityOk
         THEN Err("BETWEEN operator value must be an array of 2 elements")
         ELSE Obj(<<Prop("gte", Elem(value, 0)), Prop("lte", Elem(value, 1))>>)
    [] operator = "IS_NULL" -> Obj(<<Prop("equals", nullOperand)>>)
    [] operator = "IS_NOT_NULL" -> Obj(<<Prop("not", Null)>>)
    [] OTHER -> Err("Unsupported operator: " \o operator)

\* Mutant: BETWEEN accepts every array of 2 or more elements
_translateOperator_AtLeastTwo(operator, value) ==
  OperatorVariant(operator, value, IsArray(value) /\ Len(value.v) >= 2, Null)
\* Mutant: IS_NULL compares with the value supplied
_translateOperator_NullOperand(operator, value) ==
  OperatorVariant(operator, value, IsArray(value) /\ Len(value.v) = 2, value)

\* Mutant: an operator outside the enumeration compares for equality
_translateOperator_DefaultEquals(operator, value) ==
  IF operator # "BETWEEN" /\ IsErr(OperatorVariant(operator, value, TRUE, Null))
  THEN Obj(<<Prop("equals", value)>>)
  ELSE OperatorVariant(operator, value, IsArray(value) /\ Len(value.v) = 2, Null)

\* _translateOperator(operator, value)
_translateOperator(operator, value) ==
  CASE operator = "EQ" -> Obj(<<Prop("equals", value)>>)
    [] operator = "NE" -> Obj(<<Prop("not", value)>>)
    [] operator = "GT" -> Obj(<<Prop("gt", value)>>)
    [] operator = "GTE" -> Obj(<<Prop("gte", value)>>)
    [] operator = "LT" -> Obj(<<Prop("lt", value)>>)
    [] operator = "LTE" -> Obj(<<Prop("lte", value)>>)
    [] operator = "IN" -> Obj(<<Prop("in", value)>>)
    [] operator = "NOT_IN" -> Obj(<<Prop("notIn", value)>>)
    [] operator = "LIKE" -> Obj(<<Prop("contains", value), Prop("mode", Str("default"))>>)
    [] operator = "ILIKE" -> Obj(<<Prop("contains", value), Prop("mode", Str("insensitive"))>>)
    [] operator = "BETWEEN" ->
         IF ~IsArray(value) \/ Len(value.v) # 2
         THEN Err("BETWEEN operator value must be an array of 2 elements")
         ELSE Obj(<<Prop("gte", Elem(value, 0)), Prop("lte", Elem(value, 1))>>)
    [] operator = "IS_NULL" -> Obj(<<Prop("equals", Null)>>)
    [] operator = "IS_NOT_NULL" -> Obj(<<Prop("not", Null)>>)
    [] OTHER -> Err("Unsupported operator: " \o operator)

\* _translateFilter(filter): a throw of _translateOperator propagates
_translateFilter(f) ==
  LET prismaWhere == _translateOperator(f.operator, f.value)
      fieldParts == Split(f.field)
  IN IF IsErr(prismaWhere) THEN prismaWhere
     ELSE _buildNestedWhere(fieldParts, prismaWhere)

\* "conditions" in condition
IsFilterGroup(condition) == "conditions" \in DOMAIN condition

\* "AND" in c || "OR" in c || "NOT" in c
HasLogicalKey(c) == HasKey(c, "AND") \/ HasKey(c, "OR") \/ HasKey(c, "NOT")

\* _mergeWhereObjects(whereObjects)
RECURSIVE ReduceMerge(_, _, _)
ReduceMerge(merged, whereObjects, i) ==
  IF i > Len(whereObjects) THEN merged
  ELSE ReduceMerge(_deepMergeWhere(merged, whereObjects[i]), whereObjects, i + 1)
\* Mutant: no objects to merge give {AND: []}
_mergeWhereObjects_EmptyAnd(whereObjects) ==
  IF Len(whereObjects) = 0 THEN Obj(<<Prop("AND", Arr(<<>>))>>)
  ELSE IF Len(whereObjects) = 1 THEN whereObjects[1]
  ELSE ReduceMerge(Obj(<<>>), whereObjects, 1)
\* Mutant: the objects are merged from the last to the first
_mergeWhereObjects_LastToFirst(whereObjects) ==
  IF Len(whereObjects) = 0 THEN Obj(<<>>)
  ELSE IF Len(whereObjects) = 1 THEN whereObjects[1]
  ELSE ReduceMerge(Obj(<<>>),
                   [i \in 1..Len(whereObjects) |-> whereObjects[Len(whereObjects) + 1 - i]],
                   1)
_mergeWhereObjects(whereObjects) ==
  IF Len(whereObjects) = 0 THEN Obj(<<>>)
  ELSE IF Len(whereObjects) = 1 THEN whereObjects[1]
  ELSE ReduceMerge(Obj(<<>>), whereObjects, 1)

\* _translateFilterGroup(filterGroup); map() stops at the first child that throws
RECURSIVE _translateFilterGroup(_)
TranslateCondition(condition) ==
  IF IsFilterGroup(condition) THEN _translateFilterGroup(condition)
  ELSE _translateFilter(condition)
\* Mutant: the children of every group are merged when none carries a
\* combinator key, whatever the operator of the group
_translateFilterGroup_MergeAny(filterGroup) ==
  LET translatedConditions ==
        [i \in 1..Len(filterGroup.conditions) |->
           TranslateCondition(filterGroup.conditions[i])]
  IN IF AnyErr(translatedConditions) THEN FirstErr(translatedConditions)
     ELSE IF \E i \in 1..Len(translatedConditions) : HasLogicalKey(translatedConditions[i])
     THEN Obj(<<Prop(filterGroup.operator, Arr(translatedConditions))>>)
     ELSE IF filterGroup.operator = "AND" THEN _mergeWhereObjects(translatedConditions)
     ELSE Obj(<<Prop(filterGroup.operator,
                     Arr(<<_mergeWhereObjects(translatedConditions)>>))>>)
\* Mutant: an AND group is wrapped when a child is a group in the builder,
\* whatever keys the compiled children carry
_translateFilterGroup_WrapGroupChildren(filterGroup) ==
  LET logic == IF filterGroup.operator = "AND" THEN "AND"
               ELSE IF filterGroup.operator = "OR" THEN "OR" ELSE "NOT"
      translatedConditions ==
        [i \in 1..Len(filterGroup.conditions) |->
           TranslateCondition(filterGroup.conditions[i])]
  IN IF AnyErr(translatedConditions) THEN FirstErr(translatedConditions)
     ELSE IF filterGroup.operator = "AND"
     THEN IF \E i \in 1..Len(filterGroup.conditions) :
               IsFilterGroup(filterGroup.conditions[i])
          THEN Obj(<<Prop("AND", Arr(translatedConditions))>>)
          ELSE _mergeWhereObjects(translatedConditions)
     ELSE Obj(<<Prop(logic, Arr(translatedConditions))>>)
_translateFilterGroup(filterGroup) ==
  LET logic == IF filterGroup.operator = "AND" THEN "AND"
               ELSE IF filterGroup.operator = "OR" THEN "OR" ELSE "NOT"
      translatedConditions ==
        [i \in 1..Len(filterGroup.conditions) |->
           TranslateCondition(filterGroup.conditions[i])]
  IN IF AnyErr(translatedConditions) THEN FirstErr(translatedConditions)
     ELSE IF filterGroup.operator = "AND"
     THEN IF \E i \in 1..Len(translatedConditions) : HasLogicalKey(translatedConditions[i])
          THEN Obj(<<Prop("AND", Arr(translatedConditions))>>)
          ELSE _mergeWhereObjects(translatedConditions)
     ELSE Obj(<<Prop(logic, Arr(translatedConditions))>>)

\* Mutant: a list of one filter goes through the wrap test like any other
translateWhere_NoSingleCase(filters) ==
  IF Len(filters) = 0 THEN Obj(<<>>)
  ELSE
    LET translatedFilters == [i \in 1..Len(filters) |-> TranslateCondition(filters[i])]
    IN IF AnyErr(translatedFilters) THEN FirstErr(translatedFilters)
       ELSE IF \E i \in 1..Len(translatedFilters) : HasLogicalKey(translatedFilters[i])
       THEN Obj(<<Prop("AND", Arr(translatedFilters))>>)
       ELSE _mergeWhereObjects(translatedFilters)
\* translateWhere(filters)
translateWhere(filters) ==
  IF Len(filters) = 0 THEN Obj(<<>>)
  ELSE IF Len(filters) = 1 THEN TranslateCondition(filters[1])
  ELSE
    LET translatedFilters == [i \in 1..Len(filters) |-> TranslateCondition(filters[i])]
    IN IF AnyErr(translatedFilters) THEN FirstErr(translatedFilters)
       ELSE IF \E i \in 1..Len(translatedFilters) : HasLogicalKey(translatedFilters[i])
       THEN Obj(<<Prop("AND", Arr(translatedFilters))>>)
       ELSE _mergeWhereObjects(translatedFilters)

----------------------------------------------------------------------------
(* QueryBuilder: a builder is its _meta record *)

_DEFAULT_PAGE == 1
_DEFAULT_LIMIT == 10
_MAX_LIMIT == 1000

\* QueryBuilder.create()
create ==
  [filters |-> <<>>, sorts |-> <<>>, includes |-> <<>>,
   pagination |-> [page |-> _DEFAULT_PAGE, limit |-> _DEFAULT_LIMIT]]

\* Mutant: a BETWEEN condition whose value is no 2-element array is refused
\* when it is added, the builder staying as it was
filter_CheckedWhenAdded(m, f) ==
  IF ~IsFilterGroup(f) /\ f.operator = "BETWEEN" /\ ~(IsArray(f.value) /\ Len(f.value.v) = 2)
  THEN m
  ELSE [m EXCEPT !.filters = Append(m.filters, f)]
\* filter(filter) on the builder with _meta m
filter(m, f) == [m EXCEPT !.filters = Append(m.filters, f)]
\* where(field, operator, value)
where(m, fld, operator, value) ==
  filter(m, [field |-> fld, operator |-> operator, value |-> value])
\* Mutant: the new sort is put in front of the list
sortBy_Prepend(m, fld, direction) ==
  [m EXCEPT !.sorts = <<[field |-> fld, direction |-> direction]>> \o m.sorts]
\* sortBy(field, direction)
sortBy(m, fld, direction) ==
  [m EXCEPT !.sorts = Append(m.sorts, [field |-> fld, direction |-> direction])]
\* include(include)
include(m, inc) == [m EXCEPT !.includes = Append(m.includes, inc)]
\* Mutant: the upper bound of limit is taken exclusive
paginateError_ExclusiveMax(page, limit) ==
  IF Lt(page, 1) THEN Err("Page must be >= 1")
  ELSE IF Lt(limit, 1) \/ Ge(limit, 1000) THEN Err("Limit must be between 1 and 1000")
  ELSE Undefined
\* paginate(page, limit): the error thrown, if any
paginateError(page, limit) ==
  IF Lt(page, 1) THEN Err("Page must be >= 1")
  ELSE IF Lt(limit, 1) \/ Gt(limit, _MAX_LIMIT) THEN Err("Limit must be between 1 and 1000")
  ELSE Undefined
\* paginate(page, limit): the builder returned when nothing is thrown
paginate(m, page, limit) == [m EXCEPT !.pagination = [page |-> page, limit |-> limit]]

getFilters(m) == m.filters
getSorts(m) == m.sorts
getIncludes(m) == m.includes
getPagination(m) == m.pagination
\* Mutant: the offset counts the current page too
getOffset_PageTimesLimit(m) == Times(m.pagination.page, m.pagination.limit)
getOffset(m) == Times(Minus(m.pagination.page, 1), m.pagination.limit)
getLimit(m) == m.pagination.limit

\* Mutant: the clauses are set without the length checks
translate_NoLengthCheck(query) ==
  LET whereClause == translateWhere(getFilters(query))
  IN IF IsErr(whereClause) THEN whereClause
     ELSE Obj(<<Prop("where", whereClause),
                Prop("orderBy", translateOrderBy(getSorts(query))),
                Prop("include", translateInclude(getIncludes(query))),
                Prop("skip", Num(getOffset(query))),
                Prop("take", Num(getLimit(query)))>>)
\* Mutant: a where clause that cannot be compiled is left out of the bundle
translate_PartialBundle(query) ==
  LET whereClause == translateWhere(getFilters(query))
      r1 == IF Len(getFilters(query)) > 0 /\ ~IsErr(whereClause)
            THEN SetKey(Obj(<<>>), "where", whereClause) ELSE Obj(<<>>)
      r2 == IF Len(getSorts(query)) > 0
            THEN SetKey(r1, "orderBy", translateOrderBy(getSorts(query))) ELSE r1
      r3 == IF Len(getIncludes(query)) > 0
            THEN SetKey(r2, "include", translateInclude(getIncludes(query))) ELSE r2
  IN SetKey(SetKey(r3, "skip", Num(getOffset(query))), "take", Num(getLimit(query)))
\* PrismaTranslator.translate(query): the bundle, or the error thrown on the way
translate(query) ==
  LET filters == getFilters(query)
      sorts == getSorts(query)
      includes == getIncludes(query)
      whereClause == translateWhere(filters)
      r1 == IF Len(filters) > 0 THEN SetKey(Obj(<<>>), "where", whereClause) ELSE Obj(<<>>)
      r2 == IF Len(sorts) > 0 THEN SetKey(r1, "orderBy", translateOrderBy(sorts)) ELSE r1
      r3 == IF Len(includes) > 0 THEN SetKey(r2, "include", translateInclude(includes)) ELSE r2
      r4 == SetKey(r3, "skip", Num(getOffset(query)))
  IN IF Len(filters) > 0 /\ IsErr(whereClause) THEN whereClause
     ELSE SetKey(r4, "take", Num(getLimit(query)))

----------------------------------------------------------------------------
(* The accumulator as a state machine: builders is the sequence of the      *)
(* QueryBuilder instances the caller holds (instances are immutable, an     *)
(* operation on builders[r] makes a new instance), call is the last call    *)
(* and outcome what it returned or threw (Ref(i) is the instance i).        *)

MaxBuilders == 3

Ref(i) == [k |-> "ref", v |-> i]

Leaf(fld, operator, value) == [field |-> fld, operator |-> operator, value |-> value]
Group(operator, conditions) == [operator |-> operator, conditions |-> conditions]

\* The accumulator never looks inside what it stores, so the calls of this
\* machine draw from small sets; the translation machine below draws the
\* stored values widely.
WhereFields == {<<"status">>}
WhereOperators == {"EQ", "BETWEEN"}
WhereValues == {Str("active"), Str("pending"), Arr(<<Num(18)>>)}
\* where() is called with a string for EQ and with the array for BETWEEN
WhereArgs ==
  {a \in WhereFields \X WhereOperators \X WhereValues : (a[2] = "BETWEEN") <=> IsArray(a[3])}
FilterArgs ==
  {Group("OR", <<Leaf(<<"status">>, "EQ", Str("active")),
                 Leaf(<<"author", ".", "email">>, "EQ", Str("a@b.com"))>>)}
SortFields == {<<"name">>, <<>>}
SortDirections == {"ASC", "DESC"}
\* sortBy() is called with "name" in both directions and with "" in one
SortArgs == {a \in SortFields \X SortDirections : a[1] = <<>> => a[2] = "ASC"}
IncludeNames == {"posts"}
Pages == {0, 1, NaN}
Limits == {0, 1, _MAX_LIMIT, _MAX_LIMIT + 1, NaN}
\* paginate() is called with one argument off the default page or the least
\* limit at a time
PaginateArgs == {a \in Pages \X Limits : a[1] = 1 \/ a[2] = 1}

Init ==
  /\ builders = <<create>>
  /\ call = [op |-> "create", recv |-> 0, args |-> <<>>]
  /\ outcome = Ref(1)
  /\ heap = <<>>

\* A call that returns a new instance
Returns(name, r, args, m) ==
  /\ Len(builders) < MaxBuilders
  /\ builders' = Append(builders, m)
  /\ call' = [op |-> name, recv |-> r, args |-> args]
  /\ outcome' = Ref(Len(builders) + 1)
  /\ heap' = heap

\* A call that throws, or that returns a value that is no builder
Yields(name, r, args, x) ==
  /\ builders' = builders
  /\ call' = [op |-> name, recv |-> r, args |-> args]
  /\ outcome' = x
  /\ heap' = heap

Filter ==
  \E r \in 1..Len(builders), f \in FilterArgs :
    Returns("filter", r, <<f>>, filter(builders[r], f))

Where ==
  \E r \in 1..Len(builders), a \in WhereArgs :
    Returns("where", r, a, where(builders[r], a[1], a[2], a[3]))

SortBy ==
  \E r \in 1..Len(builders), a \in SortArgs :
    Returns("sortBy", r, a, sortBy(builders[r], a[1], a[2]))

Include ==
  \E r \in 1..Len(builders), inc \in IncludeNames :
    Returns("include", r, <<inc>>, include(builders[r], inc))

Paginate ==
  \E r \in 1..Len(builders), a \in PaginateArgs :
    IF IsErr(paginateError(a[1], a[2]))
    THEN Yields("paginate", r, a, paginateError(a[1], a[2]))
    ELSE Returns("paginate", r, a, paginate(builders[r], a[1], a[2]))

Translate ==
  \E r \in 1..Len(builders) :
    Yields("translate", r, <<>>, translate(builders[r]))

TranslateWhere ==
  \E r \in 1..Len(builders) :
    Yields("translateWhere", r, <<>>, translateWhere(getFilters(builders[r])))

Next == Filter \/ Where \/ SortBy \/ Include \/ Paginate \/ Translate \/ TranslateWhere

Spec == Init /\ [][Next]_vars

----------------------------------------------------------------------------
(* The translation engine as a state machine: the caller holds one builder  *)
(* that a chain of filter/where/sortBy/include/paginate calls produced,     *)
(* drawn from the sets below, and applies the translator's public           *)
(* functions to it.                                                         *)

MaxArity == 3
MaxFilters == 3
MaxChildren == 2
MaxSorts == 3
MaxIncludes == 3
MaxPage == 3

\* All sequences over S of a length in lo..hi
SeqsOf(S, lo, hi) == UNION {[1..n -> S] : n \in lo..hi}

\* The array [18, 30, 42, ...] of n numbers
ArrayOf(n) == Arr([i \in 1..n |-> Num(18 + 12 * (i - 1))])

ConditionOperator ==
  {"EQ", "NE", "GT", "GTE", "LT", "LTE", "IN", "NOT_IN", "LIKE", "ILIKE",
   "BETWEEN", "IS_NULL", "IS_NOT_NULL"}
\* The enumeration, and a value outside it (possible at run time only)
DrawnOperators == ConditionOperator \cup {"REGEX"}
DrawnValues == {Num(18), Str("active"), Null} \cup {ArrayOf(n) : n \in 0..MaxArity}
DrawnFields ==
  {<<"age">>, <<"created", "At">>, <<"author", ".", "email">>,
   <<"a", ".", "b", ".", "c">>}

\* One condition of every field, operator and value
SingleLeaves ==
  {Leaf(fld, o, x) : fld \in DrawnFields, o \in DrawnOperators, x \in DrawnValues}

\* Conditions that meet as siblings: the same field twice, a shared prefix,
\* a path that is a prefix of another, segments named like a combinator
SiblingLeaves ==
  {Leaf(<<"status">>, "EQ", Str("active")),
   Leaf(<<"status">>, "EQ", Str("pending")),
   Leaf(<<"status">>, "GTE", Num(18)),
   Leaf(<<"status">>, "LTE", Num(30)),
   Leaf(<<"age">>, "GTE", Num(18)),
   Leaf(<<"author">>, "EQ", Num(18)),
   Leaf(<<"author", ".", "email">>, "EQ", Str("a@b.com")),
   Leaf(<<"author", ".", "verified">>, "EQ", Bool(TRUE)),
   Leaf(<<"OR">>, "EQ", Num(18)),
   Leaf(<<"NOT", ".", "a">>, "EQ", Num(18)),
   Leaf(<<"x", ".", "AND", ".", "a">>, "EQ", Num(18)),
   Leaf(<<"x", ".", "AND", ".", "b">>, "EQ", Num(30))}

LogicalOperator == {"AND", "OR", "NOT"}
GroupLeaves ==
  {Leaf(<<"status">>, "EQ", Str("active")),
   Leaf(<<"status">>, "EQ", Str("pending")),
   Leaf(<<"author", ".", "email">>, "EQ", Str("a@b.com")),
   Leaf(<<"age">>, "BETWEEN", ArrayOf(1))}
\* Groups of conditions
InnerGroups ==
  {Group(o, cs) : o \in LogicalOperator, cs \in SeqsOf(GroupLeaves, 0, MaxChildren)}
\* The groups that are nested in others
NestedGroups ==
  {Group("OR", <<Leaf(<<"status">>, "EQ", Str("active")),
                 Leaf(<<"status">>, "EQ", Str("pending"))>>),
   Group("AND", <<Leaf(<<"status">>, "EQ", Str("active")),
                  Leaf(<<"author", ".", "email">>, "EQ", Str("a@b.com"))>>),
   Group("NOT", <<Leaf(<<"status">>, "EQ", Str("pending"))>>),
   Group("OR", <<Leaf(<<"status">>, "EQ", Str("active")),
                 Leaf(<<"age">>, "REGEX", Str("active"))>>),
   Group("AND", <<>>)}
\* Groups of conditions and groups
OuterGroups ==
  {Group(o, cs) : o \in LogicalOperator,
                  cs \in SeqsOf(GroupLeaves \cup NestedGroups, 0, MaxChildren)}

DrawnSorts ==
  {[field |-> fld, direction |-> d] :
     fld \in {<<"name">>, <<"created", "At">>, <<"author", ".", "name">>},
     d \in {"ASC", "DESC"}}
DrawnIncludes == {"posts", "profile", "comments"}
DrawnPaginations ==
  {[page |-> p, limit |-> l] : p \in 1..MaxPage, l \in {1, _DEFAULT_LIMIT, _MAX_LIMIT}}

WithFilters(fs) == [create EXCEPT !.filters = fs]
WithSorts(ss) == [create EXCEPT !.sorts = ss]
WithIncludes(is) == [create EXCEPT !.includes = is]

DrawnBuilders ==
  {WithFilters(<<f>>) : f \in SingleLeaves}
  \cup {WithFilters(fs) : fs \in SeqsOf(SiblingLeaves, 2, MaxFilters)}
  \cup {WithFilters(<<Group("AND", fs)>>) : fs \in SeqsOf(SiblingLeaves, 2, MaxChildren)}
  \cup {WithFilters(<<g>>) : g \in InnerGroups \cup OuterGroups}
  \cup {WithFilters(fs) : fs \in SeqsOf(GroupLeaves \cup NestedGroups, 2, 2)}
  \cup {WithSorts(ss) : ss \in SeqsOf(DrawnSorts, 0, MaxSorts)}
  \cup {WithIncludes(is) : is \in SeqsOf(DrawnIncludes, 0, MaxIncludes)}
  \cup {[filters |-> fs, sorts |-> ss, includes |-> is, pagination |-> pg] :
          fs \in {<<>>,
                  <<Leaf(<<"age">>, "BETWEEN", ArrayOf(2))>>,
                  <<Leaf(<<"age">>, "BETWEEN", ArrayOf(1))>>,
                  <<Group("AND", <<>>)>>,
                  <<Group("NOT", <<Group("OR", <<Leaf(<<"status">>, "EQ", Str("active")),
                                                 Leaf(<<"age">>, "REGEX", Str("active"))>>)>>)>>,
                  <<Leaf(<<"status">>, "EQ", Str("active")),
                    Leaf(<<"age">>, "GTE", Num(18))>>},
          ss \in SeqsOf({[field |-> <<"name">>, direction |-> "ASC"],
                         [field |-> <<"created", "At">>, direction |-> "DESC"]}, 0, 2),
          is \in SeqsOf({"posts"}, 0, 2),
          pg \in DrawnPaginations}

InitT ==
  /\ builders \in {<<m>> : m \in DrawnBuilders}
  /\ call = [op |-> "chain", recv |-> 0, args |-> <<>>]
  /\ outcome = Ref(1)
  /\ heap = <<>>

TranslateOrderBy ==
  \E r \in 1..Len(builders) :
    Yields("translateOrderBy", r, <<>>, translateOrderBy(getSorts(builders[r])))

TranslateInclude ==
  \E r \in 1..Len(builders) :
    Yields("translateInclude", r, <<>>, translateInclude(getIncludes(builders[r])))

NextT == Translate \/ TranslateWhere \/ TranslateOrderBy \/ TranslateInclude

SpecT == InitT /\ [][NextT]_vars

----------------------------------------------------------------------------
(* The accumulator and its caller with references: heap is the sequence of  *)
(* the arrays and objects allocated, the address of one is its index. A     *)
(* cell has its kind k, its content v and ext, whether the caller holds a   *)
(* reference to it. The _meta of an instance holds the addresses of its     *)
(* three arrays and of its pagination object; the filters and sorts arrays  *)
(* hold addresses of condition and sort objects, the includes array         *)
(* strings. The caller writes to what it can reach.                         *)

MaxHeap == 7

Addr(a) == [k |-> "addr", v |-> a]
Cell(kind, content, ext) == [k |-> kind, v |-> content, ext |-> ext]

\* The _meta of the instance b with every address replaced by what it leads to
ViewOf(h, b) ==
  [filters |-> [j \in 1..Len(h[b.filters].v) |-> h[h[b.filters].v[j].v].v],
   sorts |-> [j \in 1..Len(h[b.sorts].v) |-> h[h[b.sorts].v[j].v].v],
   includes |-> [j \in 1..Len(h[b.includes].v) |-> h[b.includes].v[j].v],
   pagination |-> h[b.pagination].v]

\* Mutant: the element is pushed onto the array itself before it is copied
Spread_Push(h, a, x) ==
  Append([h EXCEPT ![a].v = Append(@, x)], Cell("array", Append(h[a].v, x), FALSE))
\* [...array, x]: a new array, the heap after it is allocated
Spread(h, a, x) == Append(h, Cell("array", Append(h[a].v, x), FALSE))
\* [...array], {...object}: a copy, handed to the caller
Copy(h, a) == Append(h, [h[a] EXCEPT !.ext = TRUE])

\* What the calls of this machine are given
HeapCondition == Leaf(<<"status">>, "EQ", Str("active"))
HeapSort == [field |-> <<"name">>, direction |-> "ASC"]
HeapInclude == "posts"
HeapPaginateArgs == {<<0, 1>>, <<1, 1>>}

InitH ==
  /\ heap = <<Cell("array", <<>>, FALSE), Cell("array", <<>>, FALSE), Cell("array", <<>>, FALSE),
              Cell("pagination", create.pagination, FALSE)>>
  /\ builders = <<[filters |-> 1, sorts |-> 2, includes |-> 3, pagination |-> 4]>>
  /\ call = [op |-> "create", recv |-> 0, args |-> <<>>]
  /\ outcome = Ref(1)

\* new QueryBuilder(meta) returned by the call name on the instance r
ReturnsH(name, r, meta, h) ==
  /\ Len(builders) < MaxBuilders
  /\ Len(h) <= MaxHeap
  /\ heap' = h
  /\ builders' = Append(builders, meta)
  /\ call' = [op |-> name, recv |-> r, args |-> <<>>]
  /\ outcome' = Ref(Len(builders) + 1)

\* The caller makes a condition object, keeps it, and calls filter() with it
FilterH ==
  \E r \in 1..Len(builders) :
    LET h1 == Append(heap, Cell("condition", HeapCondition, TRUE))
        h2 == Spread(h1, builders[r].filters, Addr(Len(h1)))
    IN ReturnsH("filter", r, [builders[r] EXCEPT !.filters = Len(h2)], h2)

\* where() makes the condition object and calls filter() with it
WhereH ==
  \E r \in 1..Len(builders) :
    LET h1 == Append(heap, Cell("condition", HeapCondition, FALSE))
        h2 == Spread(h1, builders[r].filters, Addr(Len(h1)))
    IN ReturnsH("where", r, [builders[r] EXCEPT !.filters = Len(h2)], h2)

SortByH ==
  \E r \in 1..Len(builders) :
    LET h1 == Append(heap, Cell("sort", HeapSort, FALSE))
        h2 == Spread(h1, builders[r].sorts, Addr(Len(h1)))
    IN ReturnsH("sortBy", r, [builders[r] EXCEPT !.sorts = Len(h2)], h2)

IncludeH ==
  \E r \in 1..Len(builders) :
    LET h1 == Spread(heap, builders[r].includes, Str(HeapInclude))
    IN ReturnsH("include", r, [builders[r] EXCEPT !.includes = Len(h1)], h1)

PaginateH ==
  \E r \in 1..Len(builders), a \in HeapPaginateArgs :
    IF IsErr(paginateError(a[1], a[2]))
    THEN /\ call' = [op |-> "paginate", recv |-> r, args |-> <<>>]
         /\ outcome' = paginateError(a[1], a[2])
         /\ UNCHANGED <<builders, heap>>
    ELSE LET h1 == Append(heap, Cell("pagination", [page |-> a[1], limit |-> a[2]], FALSE))
         IN ReturnsH("paginate", r, [builders[r] EXCEPT !.pagination = Len(h1)], h1)

\* A getter: the copy is allocated and its address returned
Gets(name, r, a) ==
  /\ Len(heap) < MaxHeap
  /\ heap' = Copy(heap, a)
  /\ call' = [op |-> name, recv |-> r, args |-> <<>>]
  /\ outcome' = Addr(Len(heap) + 1)
  /\ UNCHANGED builders

GetFiltersH == \E r \in 1..Len(builders) : Gets("getFilters", r, builders[r].filters)
GetSortsH == \E r \in 1..Len(builders) : Gets("getSorts", r, builders[r].sorts)
GetIncludesH == \E r \in 1..Len(builders) : Gets("getIncludes", r, builders[r].includes)
GetPaginationH == \E r \in 1..Len(builders) : Gets("getPagination", r, builders[r].pagination)

\* The caller can reach the cell a: it holds a reference to it, or to an
\* array that holds its address
Reachable(a) ==
  \/ heap[a].ext
  \/ \E c \in 1..Len(heap) :
       /\ heap[c].ext
       /\ heap[c].k = "array"
       /\ \E j \in 1..Len(heap[c].v) : heap[c].v[j].k = "addr" /\ heap[c].v[j].v = a

\* The caller removes the last element of an array it holds (pop), or adds
\* the first once more (push)
MutateArray ==
  \E a \in 1..Len(heap) :
    /\ Reachable(a)
    /\ heap[a].k = "array"
    /\ Len(heap[a].v) > 0
    /\ \/ heap' = [heap EXCEPT ![a].v = SubSeq(@, 1, Len(@) - 1)]
       \/ Len(heap[a].v) < MaxBuilders /\ heap' = [heap EXCEPT ![a].v = Append(@, @[1])]
    /\ call' = [op |-> "mutateArray", recv |-> 0, args |-> <<a>>]
    /\ outcome' = Undefined
    /\ UNCHANGED builders

\* The object c after the caller assigned one of its fields
Assigned(c) ==
  CASE c.k = "condition" -> [c EXCEPT !.v.value = Str("pending")]
    [] c.k = "sort" -> [c EXCEPT !.v.direction = "DESC"]
    [] c.k = "pagination" -> [c EXCEPT !.v.page = 0]

\* The caller assigns a field of an object it can reach
MutateObject ==
  \E a \in 1..Len(heap) :
    /\ Reachable(a)
    /\ heap[a].k # "array"
    /\ heap' = [heap EXCEPT ![a] = Assigned(@)]
    /\ call' = [op |-> "mutateObject", recv |-> 0, args |-> <<a>>]
    /\ outcome' = Undefined
    /\ UNCHANGED builders

\* Mutant: translate takes the conditions out of the array of the builder
TranslateH_Draining ==
  \E r \in 1..Len(builders) :
    /\ heap' = [heap EXCEPT ![builders[r].filters].v = <<>>]
    /\ call' = [op |-> "translate", recv |-> r, args |-> <<>>]
    /\ outcome' = translate(ViewOf(heap, builders[r]))
    /\ UNCHANGED builders
\* translate(query) reads the builder through its getters; their copies are
\* dropped when it returns
TranslateH ==
  \E r \in 1..Len(builders) :
    /\ call' = [op |-> "translate", recv |-> r, args |-> <<>>]
    /\ outcome' = translate(ViewOf(heap, builders[r]))
    /\ UNCHANGED <<builders, heap>>

NextH ==
  \/ FilterH \/ WhereH \/ SortByH \/ IncludeH \/ PaginateH
  \/ GetFiltersH \/ GetSortsH \/ GetIncludesH \/ GetPaginationH
  \/ MutateArray \/ MutateObject \/ TranslateH

SpecH == InitH /\ [][NextH]_vars

----------------------------------------------------------------------------
(* Reading a state *)

\* The receiver of the last call
Receiver == builders[call.recv]
\* The last call was name and returned (a bundle, a clause or a builder)
Returned(name) == call.op = name /\ ~IsErr(outcome)
\* The last call was name and threw
Threw(name) == call.op = name /\ IsErr(outcome)

\* o[s1][s2]...[sn], undefined when a step is missing
RECURSIVE At(_, _)
At(o, path) ==
  IF Len(path) = 0 THEN o
  ELSE IF IsPlainObject(o) /\ HasKey(o, Head(path)) THEN At(GetKey(o, Head(path)), Tail(path))
  ELSE Undefined

\* o is {s1: {s2: ... {sn: x}}} with exactly one key at each level
RECURSIVE OneKeyChain(_, _, _)
OneKeyChain(o, segs, x) ==
  /\ IsPlainObject(o)
  /\ Len(o.v) = 1
  /\ o.v[1].key = Head(segs)
  /\ IF Len(segs) = 1 THEN o.v[1].val = x
     ELSE OneKeyChain(o.v[1].val, Tail(segs), x)

\* The segments of the field paths drawn, written out
SegmentsOf(fld) ==
  CASE fld = <<"age">> -> <<"age">>
    [] fld = <<"status">> -> <<"status">>
    [] fld = <<"name">> -> <<"name">>
    [] fld = <<"author">> -> <<"author">>
    [] fld = <<"OR">> -> <<"OR">>
    [] fld = <<"NOT", ".", "a">> -> <<"NOT", "a">>
    [] fld = <<"created", "At">> -> <<"createdAt">>
    [] fld = <<"author", ".", "email">> -> <<"author", "email">>
    [] fld = <<"author", ".", "verified">> -> <<"author", "verified">>
    [] fld = <<"author", ".", "name">> -> <<"author", "name">>
    [] fld = <<"a", ".", "b", ".", "c">> -> <<"a", "b", "c">>
    [] fld = <<"x", ".", "AND", ".", "a">> -> <<"x", "AND", "a">>
    [] fld = <<"x", ".", "AND", ".", "b">> -> <<"x", "AND", "b">>

----------------------------------------------------------------------------
(* C1 *)

\* C1: paginate(page, limit) throws exactly when page < 1 or limit < 1 or
\* limit > 1000; otherwise it returns a builder whose pagination is exactly
\* (page, limit), never a clamped or corrected value.
C1_PaginateValidation ==
  call.op = "paginate" =>
    LET page == call.args[1]
        limit == call.args[2]
    IN /\ IsErr(outcome) <=> (Lt(page, 1) \/ Lt(limit, 1) \/ Gt(limit, 1000))
       /\ ~IsErr(outcome) =>
            /\ outcome.k = "ref"
            /\ getPagination(builders[outcome.v]) = [page |-> page, limit |-> limit]

\* paginate(1, 1000), the upper boundary, returned a builder
C1_Witness ==
  /\ Returned("paginate")
  /\ call.args = <<1, 1000>>
  /\ getPagination(builders[outcome.v]) = [page |-> 1, limit |-> 1000]

----------------------------------------------------------------------------
(* C2, C3 *)

\* C2: for every valid pagination, getOffset() = (page - 1) * limit and
\* getLimit() = limit, and a bundle returned by translate has
\* skip = (page - 1) * limit and take = limit, whatever else the builder holds.
C2_SkipTake ==
  /\ \A i \in 1..Len(builders) :
       LET p == getPagination(builders[i])
       IN /\ getOffset(builders[i]) = (p.page - 1) * p.limit
          /\ getLimit(builders[i]) = p.limit
  /\ Returned("translate") =>
       LET p == getPagination(Receiver)
       IN /\ GetKey(outcome, "skip") = Num((p.page - 1) * p.limit)
          /\ GetKey(outcome, "take") = Num(p.limit)

\* Page 3 of 1000 with filters and sorts translated: skip 2000, take 1000
C2_Witness ==
  /\ Returned("translate")
  /\ getPagination(Receiver) = [page |-> 3, limit |-> 1000]
  /\ Len(getFilters(Receiver)) > 0
  /\ Len(getSorts(Receiver)) > 0
  /\ GetKey(outcome, "skip") = Num(2000)
  /\ GetKey(outcome, "take") = Num(1000)

\* C3: in a bundle returned by translate the key where is present iff the
\* filter list is non-empty, orderBy iff the sort list is non-empty, include
\* iff the include list is non-empty, skip and take always; translating
\* QueryBuilder.create() yields exactly {skip: 0, take: 10}.
C3_ClausePresence ==
  Returned("translate") =>
    /\ HasKey(outcome, "where") <=> Len(getFilters(Receiver)) > 0
    /\ HasKey(outcome, "orderBy") <=> Len(getSorts(Receiver)) > 0
    /\ HasKey(outcome, "include") <=> Len(getIncludes(Receiver)) > 0
    /\ HasKey(outcome, "skip")
    /\ HasKey(outcome, "take")
    /\ Keys(outcome) \subseteq {"where", "orderBy", "include", "skip", "take"}
    /\ Receiver = create =>
         outcome = Obj(<<Prop("skip", Num(0)), Prop("take", Num(10))>>)

\* QueryBuilder.create() translated to exactly {skip: 0, take: 10}
C3_Witness ==
  /\ Returned("translate")
  /\ Receiver = create
  /\ outcome = Obj(<<Prop("skip", Num(0)), Prop("take", Num(10))>>)

----------------------------------------------------------------------------
(* C4, C5, C6: one leaf condition *)

\* The where clause the last call produced, or the error it threw
WhereCall == call.op \in {"translateWhere", "translate"} /\ Len(getFilters(Receiver)) > 0
WhereResult ==
  IF call.op = "translate" /\ ~IsErr(outcome) THEN GetKey(outcome, "where") ELSE outcome

\* The builder translated holds exactly one filter, a leaf condition
OneLeaf ==
  /\ WhereCall
  /\ Len(getFilters(Receiver)) = 1
  /\ ~IsFilterGroup(getFilters(Receiver)[1])
TheLeaf == getFilters(Receiver)[1]

\* The fragment table of the specification
FragmentTable(operator, x) ==
  CASE operator = "EQ" -> Obj(<<Prop("equals", x)>>)
    [] operator = "NE" -> Obj(<<Prop("not", x)>>)
    [] operator = "GT" -> Obj(<<Prop("gt", x)>>)
    [] operator = "GTE" -> Obj(<<Prop("gte", x)>>)
    [] operator = "LT" -> Obj(<<Prop("lt", x)>>)
    [] operator = "LTE" -> Obj(<<Prop("lte", x)>>)
    [] operator = "IN" -> Obj(<<Prop("in", x)>>)
    [] operator = "NOT_IN" -> Obj(<<Prop("notIn", x)>>)
    [] operator = "LIKE" -> Obj(<<Prop("contains", x), Prop("mode", Str("default"))>>)
    [] operator = "ILIKE" -> Obj(<<Prop("contains", x), Prop("mode", Str("insensitive"))>>)
    [] operator = "BETWEEN" -> Obj(<<Prop("gte", x.v[1]), Prop("lte", x.v[2])>>)
    [] operator = "IS_NULL" -> Obj(<<Prop("equals", Null)>>)
    [] operator = "IS_NOT_NULL" -> Obj(<<Prop("not", Null)>>)

IsPair(x) == IsArray(x) /\ Len(x.v) = 2

\* C4: each of the 13 operators of ConditionOperator compiles to the fragment
\* of the fragment table (BETWEEN for a 2-element value); the fragment of
\* IS_NULL and IS_NOT_NULL is the same for every value.
C4_OperatorTable ==
  (/\ OneLeaf
   /\ TheLeaf.operator \in ConditionOperator
   /\ TheLeaf.operator = "BETWEEN" => IsPair(TheLeaf.value)) =>
    /\ ~IsErr(WhereResult)
    /\ At(WhereResult, SegmentsOf(TheLeaf.field))
         = FragmentTable(TheLeaf.operator, TheLeaf.value)

\* IS_NULL given an array as value compiled to {age: {equals: null}}
C4_Witness ==
  /\ OneLeaf
  /\ call.op = "translateWhere"
  /\ TheLeaf = Leaf(<<"age">>, "IS_NULL", ArrayOf(2))
  /\ outcome = Obj(<<Prop("age", Obj(<<Prop("equals", Null)>>))>>)

\* C5: a BETWEEN condition compiles to {gte: low, lte: high} iff its value is
\* an array of exactly 2 elements; any other arity, or a value that is no
\* array, makes the translation throw the BETWEEN error.
C5_Between ==
  (OneLeaf /\ TheLeaf.operator = "BETWEEN") =>
    IF IsPair(TheLeaf.value)
    THEN OneKeyChain(WhereResult, SegmentsOf(TheLeaf.field),
                     Obj(<<Prop("gte", TheLeaf.value.v[1]),
                           Prop("lte", TheLeaf.value.v[2])>>))
    ELSE WhereResult = Err("BETWEEN operator value must be an array of 2 elements")

\* age BETWEEN [18, 30] compiled to {age: {gte: 18, lte: 30}}
C5_Witness ==
  /\ OneLeaf
  /\ TheLeaf = Leaf(<<"age">>, "BETWEEN", Arr(<<Num(18), Num(30)>>))
  /\ WhereResult = Obj(<<Prop("age", Obj(<<Prop("gte", Num(18)), Prop("lte", Num(30))>>))>>)

\* C6: a leaf condition on the dot-path s1.s2...sn compiles to
\* {s1: {s2: {... {sn: fragment}}}}, one key per level, the fragment at the
\* deepest segment only; a one-segment field gives {field: fragment}.
C6_NestedPath ==
  (OneLeaf /\ ~IsErr(WhereResult)) =>
    OneKeyChain(WhereResult, SegmentsOf(TheLeaf.field),
                _translateOperator(TheLeaf.operator, TheLeaf.value))

\* a.b.c EQ 18 compiled to {a: {b: {c: {equals: 18}}}}
C6_Witness ==
  /\ OneLeaf
  /\ TheLeaf = Leaf(<<"a", ".", "b", ".", "c">>, "EQ", Num(18))
  /\ WhereResult =
       Obj(<<Prop("a", Obj(<<Prop("b", Obj(<<Prop("c",
             Obj(<<Prop("equals", Num(18))>>))>>))>>))>>)

----------------------------------------------------------------------------
(* C7: sibling leaf conditions that are merged *)

\* The conditions compiled side by side: the top-level list, or the children
\* of the AND group that is the only filter
Siblings ==
  LET fs == getFilters(Receiver)
  IN IF Len(fs) = 1 /\ IsFilterGroup(fs[1]) /\ fs[1].operator = "AND"
     THEN fs[1].conditions ELSE fs

\* Two or more leaf conditions compiled side by side, each of which compiles
LeafSiblings ==
  /\ WhereCall
  /\ Len(Siblings) >= 2
  /\ \A i \in 1..Len(Siblings) : ~IsFilterGroup(Siblings[i])
  /\ \A i \in 1..Len(Siblings) :
       Siblings[i].operator \in ConditionOperator
       /\ (Siblings[i].operator = "BETWEEN" => IsPair(Siblings[i].value))

SiblingPath(i) == SegmentsOf(Siblings[i].field)
SiblingFragment(i) == FragmentTable(Siblings[i].operator, Siblings[i].value)

IsPrefix(p, q) == Len(p) <= Len(q) /\ SubSeq(q, 1, Len(p)) = p

DistinctPaths ==
  \A i, j \in 1..Len(Siblings) : i # j => SiblingPath(i) # SiblingPath(j)
PrefixFreePaths ==
  \A i, j \in 1..Len(Siblings) : i # j => ~IsPrefix(SiblingPath(i), SiblingPath(j))
\* No path starts with AND, OR or NOT, and no two paths share a prefix that
\* ends in a segment of such a name
NoCombinatorClash ==
  /\ \A i \in 1..Len(Siblings) : SiblingPath(i)[1] \notin {"AND", "OR", "NOT"}
  /\ \A i, j \in 1..Len(Siblings) :
       i # j =>
         \A n \in 1..Len(SiblingPath(i)) :
           ~(/\ SiblingPath(i)[n] \in {"AND", "OR", "NOT"}
             /\ IsPrefix(SubSeq(SiblingPath(i), 1, n), SiblingPath(j)))

\* o is the trie of the paths of items, a fragment at the end of each path
\* and every key once
RECURSIVE IsTrie(_, _)
IsTrie(o, items) ==
  /\ IsPlainObject(o)
  /\ Keys(o) = {Head(it.segs) : it \in items}
  /\ Len(o.v) = Cardinality(Keys(o))
  /\ \A key \in Keys(o) :
       LET sub == {it \in items : Head(it.segs) = key}
           ends == {it \in sub : Len(it.segs) = 1}
       IN IF ends # {}
          THEN Cardinality(sub) = 1 /\ \A it \in ends : GetKey(o, key) = it.frag
          ELSE IsTrie(GetKey(o, key),
                      {[segs |-> Tail(it.segs), frag |-> it.frag] : it \in sub})

SiblingItems ==
  {[segs |-> SiblingPath(i), frag |-> SiblingFragment(i)] : i \in 1..Len(Siblings)}

\* One object without an AND key, each path leading to exactly its fragment,
\* each shared prefix once
MergedExactly ==
  /\ IsPlainObject(WhereResult)
  /\ ~HasKey(WhereResult, "AND")
  /\ \A i \in 1..Len(Siblings) : At(WhereResult, SiblingPath(i)) = SiblingFragment(i)
  /\ IsTrie(WhereResult, SiblingItems)

\* C7 as stated: two or more leaf conditions with pairwise distinct paths,
\* at top level or in one AND group, compile to a single object with no AND
\* key in which each path leads to exactly its fragment.
C7_DistinctPathsMerge == (LeafSiblings /\ DistinctPaths) => MergedExactly

\* C7 amended: the same, when moreover no path is a prefix of another, no
\* path starts with AND, OR or NOT and no two paths share a prefix ending in
\* a segment of such a name.
C7_PrefixFreeMerge ==
  (LeafSiblings /\ PrefixFreePaths /\ NoCombinatorClash) => MergedExactly

\* author.email and author.verified inside one AND group merged to
\* {author: {email: {..}, verified: {..}}}
C7_Witness ==
  /\ WhereCall
  /\ getFilters(Receiver) =
       <<Group("AND", <<Leaf(<<"author", ".", "email">>, "EQ", Str("a@b.com")),
                        Leaf(<<"author", ".", "verified">>, "EQ", Bool(TRUE))>>)>>
  /\ WhereResult =
       Obj(<<Prop("author",
                  Obj(<<Prop("email", Obj(<<Prop("equals", Str("a@b.com"))>>)),
                        Prop("verified", Obj(<<Prop("equals", Bool(TRUE))>>))>>))>>)

----------------------------------------------------------------------------
(* C8: OR and NOT groups *)

\* The builder translated holds exactly one filter, an OR or a NOT group
OneOrNotGroup ==
  /\ WhereCall
  /\ Len(getFilters(Receiver)) = 1
  /\ IsFilterGroup(getFilters(Receiver)[1])
  /\ getFilters(Receiver)[1].operator \in {"OR", "NOT"}
TheGroup == getFilters(Receiver)[1]

\* t is the compilation of the condition c taken alone
CompiledAlone(t, c) ==
  IF IsFilterGroup(c) THEN t = translateWhere(<<c>>)
  ELSE OneKeyChain(t, SegmentsOf(c.field), FragmentTable(c.operator, c.value))
\* The condition c, taken alone, compiles
Compiles(c) ==
  IF IsFilterGroup(c) THEN ~IsErr(translateWhere(<<c>>))
  ELSE c.operator \in ConditionOperator /\ (c.operator = "BETWEEN" => IsPair(c.value))

\* C8: an OR (NOT) group with children c1..cn, each of which compiles,
\* compiles to {OR: [t1..tn]} ({NOT: [t1..tn]}), ti the compilation of ci
\* alone: n entries in the children's order, never merged.
C8_OrNotKeepChildren ==
  (OneOrNotGroup /\ \A i \in 1..Len(TheGroup.conditions) : Compiles(TheGroup.conditions[i])) =>
    /\ IsPlainObject(WhereResult)
    /\ Len(WhereResult.v) = 1
    /\ WhereResult.v[1].key = TheGroup.operator
    /\ IsArray(WhereResult.v[1].val)
    /\ Len(WhereResult.v[1].val.v) = Len(TheGroup.conditions)
    /\ \A i \in 1..Len(TheGroup.conditions) :
         CompiledAlone(WhereResult.v[1].val.v[i], TheGroup.conditions[i])

\* An OR group of two conditions on status kept both, in order
C8_Witness ==
  /\ OneOrNotGroup
  /\ TheGroup = Group("OR", <<Leaf(<<"status">>, "EQ", Str("active")),
                              Leaf(<<"status">>, "EQ", Str("pending"))>>)
  /\ WhereResult =
       Obj(<<Prop("OR", Arr(<<
         Obj(<<Prop("status", Obj(<<Prop("equals", Str("active"))>>))>>),
         Obj(<<Prop("status", Obj(<<Prop("equals", Str("pending"))>>))>>)>>))>>)

----------------------------------------------------------------------------
(* C9: several where() calls *)

\* o holds every property of the fragment frag
Contains(o, frag) ==
  /\ IsPlainObject(o)
  /\ \A n \in 1..Len(frag.v) :
       HasKey(o, frag.v[n].key) /\ GetKey(o, frag.v[n].key) = frag.v[n].val

\* The builder translated was made by where() calls alone
OnlyWhereCalls ==
  /\ Returned("translate")
  /\ Len(getFilters(Receiver)) >= 1
  /\ \A i \in 1..Len(getFilters(Receiver)) : ~IsFilterGroup(getFilters(Receiver)[i])

\* C9: multiple where() calls are combined with AND: the where clause holds,
\* at the field path of each call, that call's operator fragment; no
\* condition is lost.
C9_WhereCallsAllKept ==
  OnlyWhereCalls =>
    \A i \in 1..Len(getFilters(Receiver)) :
      LET f == getFilters(Receiver)[i]
      IN Contains(At(WhereResult, SegmentsOf(f.field)), FragmentTable(f.operator, f.value))

----------------------------------------------------------------------------
(* C10: several sorts *)

OrderCall == call.op \in {"translateOrderBy", "translate"} /\ ~IsErr(outcome)
OrderResult == IF call.op = "translate" THEN GetKey(outcome, "orderBy") ELSE outcome
\* The direction in the vocabulary of the backend
LowerCaseOf(direction) == IF direction = "ASC" THEN "asc" ELSE "desc"

\* C10: n >= 2 sorts compile to a list of exactly n objects, the i-th the
\* compilation of the i-th sort; nothing is reordered, dropped or merged,
\* also when two sorts name the same field.
C10_SortOrder ==
  (OrderCall /\ Len(getSorts(Receiver)) >= 2) =>
    /\ IsArray(OrderResult)
    /\ Len(OrderResult.v) = Len(getSorts(Receiver))
    /\ \A i \in 1..Len(getSorts(Receiver)) :
         OneKeyChain(OrderResult.v[i], SegmentsOf(getSorts(Receiver)[i].field),
                     Str(LowerCaseOf(getSorts(Receiver)[i].direction)))

\* name ASC, createdAt DESC, name DESC compiled to three objects in that order
C10_Witness ==
  /\ call.op = "translateOrderBy"
  /\ getSorts(Receiver) = <<[field |-> <<"name">>, direction |-> "ASC"],
                            [field |-> <<"created", "At">>, direction |-> "DESC"],
                            [field |-> <<"name">>, direction |-> "DESC"]>>
  /\ outcome = Arr(<<Obj(<<Prop("name", Str("asc"))>>),
                     Obj(<<Prop("createdAt", Str("desc"))>>),
                     Obj(<<Prop("name", Str("desc"))>>)>>)

----------------------------------------------------------------------------
(* C11: one sort *)

\* C11: exactly one sort compiles to a single object, not a list of one
\* element: the right-nested object {s1: {... {sn: dir}}} of the segments of
\* its dot-path, dir being "asc" for ASC and "desc" for DESC.
C11_SingleSort ==
  (OrderCall /\ Len(getSorts(Receiver)) = 1) =>
    /\ ~IsArray(OrderResult)
    /\ OneKeyChain(OrderResult, SegmentsOf(getSorts(Receiver)[1].field),
                   Str(LowerCaseOf(getSorts(Receiver)[1].direction)))

\* The one sort author.name DESC compiled to {author: {name: "desc"}}
C11_Witness ==
  /\ OrderCall
  /\ getSorts(Receiver) = <<[field |-> <<"author", ".", "name">>, direction |-> "DESC"]>>
  /\ OrderResult = Obj(<<Prop("author", Obj(<<Prop("name", Str("desc"))>>))>>)

----------------------------------------------------------------------------
(* C12: includes *)

IncludeCall ==
  \/ call.op = "translateInclude"
  \/ Returned("translate") /\ Len(getIncludes(Receiver)) > 0
IncludeResult == IF call.op = "translate" THEN GetKey(outcome, "include") ELSE outcome
\* The names include() was called with
IncludeNamesOf(m) == {getIncludes(m)[i] : i \in 1..Len(getIncludes(m))}

\* C12: the include clause is a flat mapping whose keys are exactly the
\* distinct include names of the builder, each once and each mapped to true;
\* a name included several times gives the mapping of including it once.
C12_IncludeSet ==
  IncludeCall =>
    /\ IsPlainObject(IncludeResult)
    /\ Keys(IncludeResult) = IncludeNamesOf(Receiver)
    /\ Len(IncludeResult.v) = Cardinality(IncludeNamesOf(Receiver))
    /\ \A i \in 1..Len(IncludeResult.v) : IncludeResult.v[i].val = Bool(TRUE)

\* include("posts") twice compiled to {posts: true}
C12_Witness ==
  /\ IncludeCall
  /\ getIncludes(Receiver) = <<"posts", "posts">>
  /\ IncludeResult = Obj(<<Prop("posts", Bool(TRUE))>>)

----------------------------------------------------------------------------
(* C13, C14, C15: what a call, and what the caller, can change *)

BuilderOps == {"filter", "where", "sortBy", "include", "paginate"}
CallerWrites == {"mutateArray", "mutateObject"}

\* What the getters of the instance i return, before and after a step
View(i) == ViewOf(heap, builders[i])
ViewAfter(i) == ViewOf(heap', builders'[i])

C14_ReceiverUntouched ==
  [][call'.op \in BuilderOps =>
       /\ \A i \in 1..Len(builders) : builders'[i] = builders[i] /\ ViewAfter(i) = View(i)
       /\ ~IsErr(outcome') =>
            /\ Len(builders') = Len(builders) + 1
            /\ outcome' = Ref(Len(builders) + 1)]_vars

\* Two builders were derived from the first, by include and by paginate: the
\* first is still the default, and neither child shows the other's change
C14_Witness ==
  /\ call.op = "paginate"
  /\ call.recv = 1
  /\ Len(builders) = 3
  /\ View(1) = create
  /\ View(2) = include(create, HeapInclude)
  /\ View(3) = paginate(create, 1, 1)

\* C15: nothing the caller writes to a value a getter returned (elements
\* added, removed or replaced, a field of a condition, sort or pagination
\* object assigned), or to the object it passed to filter(), changes what
\* the getters of any builder, and so translate, return.
C15_CallerWritesKeptOut ==
  [][call'.op \in CallerWrites =>
       \A i \in 1..Len(builders) : ViewAfter(i) = View(i)]_vars

----------------------------------------------------------------------------
(* C16, C17: conditions that cannot be compiled *)

\* The condition c holds, at some depth, a leaf of the set bad
RECURSIVE HoldsLeaf(_, _)
HoldsLeaf(c, bad) ==
  IF IsFilterGroup(c)
  THEN \E i \in 1..Len(c.conditions) : HoldsLeaf(c.conditions[i], bad)
  ELSE c \in bad
HoldsLeafOf(m, bad) ==
  \E i \in 1..Len(getFilters(m)) : HoldsLeaf(getFilters(m)[i], bad)

\* The leaves drawn that cannot be compiled: an operator outside the
\* enumeration, or BETWEEN with a value that is no 2-element array
UnsupportedLeaves == {f \in SingleLeaves : f.operator \notin ConditionOperator}
BadBetweenLeaves == {f \in SingleLeaves : f.operator = "BETWEEN" /\ ~IsPair(f.value)}

\* C16: translation is all-or-nothing: when a condition anywhere in the
\* filter tree (any depth, any group, any position) cannot be compiled,
\* translate throws and returns no bundle, whatever else the builder holds.
C16_AllOrNothing ==
  (call.op = "translate" /\ HoldsLeafOf(Receiver, UnsupportedLeaves \cup BadBetweenLeaves)) =>
    /\ IsErr(outcome)
    /\ ~IsPlainObject(outcome)

\* A NOT group holding an OR group whose second child cannot be compiled,
\* with valid sorts and includes beside it: translate threw
C16_Witness ==
  /\ Threw("translate")
  /\ getFilters(Receiver) =
       <<Group("NOT", <<Group("OR", <<Leaf(<<"status">>, "EQ", Str("active")),
                                      Leaf(<<"age">>, "REGEX", Str("active"))>>)>>)>>
  /\ Len(getSorts(Receiver)) = 2
  /\ Len(getIncludes(Receiver)) = 1

\* C17: a condition whose operator is outside the 13 of ConditionOperator
\* makes the translation throw the unsupported-operator error; it is never
\* compiled to a fragment and never skipped.
C17_UnsupportedOperator ==
  /\ (OneLeaf /\ TheLeaf.operator \notin ConditionOperator) =>
       WhereResult = Err("Unsupported operator: " \o TheLeaf.operator)
  /\ (WhereCall /\ HoldsLeafOf(Receiver, UnsupportedLeaves)) => IsErr(WhereResult)

\* age REGEX "active" made translateWhere throw "Unsupported operator: REGEX"
C17_Witness ==
  /\ OneLeaf
  /\ call.op = "translateWhere"
  /\ TheLeaf = Leaf(<<"age">>, "REGEX", Str("active"))
  /\ outcome = Err("Unsupported operator: REGEX")

----------------------------------------------------------------------------
(* C18: the pagination of every builder *)

\* page >= 1 and 1 <= limit <= 1000
InBounds(p) == Ge(p.page, 1) /\ Ge(p.limit, 1) /\ Ge(1000, p.limit)

\* C18: every builder made from create() by where, filter, sortBy, include
\* and paginate calls, failing paginate calls among them, has page >= 1 and
\* 1 <= limit <= 1000, so every bundle has skip >= 0 and 1 <= take <= 1000;
\* a paginate that fails returns no builder and changes no builder.
C18_PaginationBounds ==
  [][/\ \A i \in 1..Len(builders') : InBounds(getPagination(builders'[i]))
     /\ (call'.op = "translate" /\ ~IsErr(outcome')) =>
          /\ Ge(GetKey(outcome', "skip").v, 0)
          /\ Ge(GetKey(outcome', "take").v, 1)
          /\ Ge(1000, GetKey(outcome', "take").v)
     /\ (call'.op = "paginate" /\ IsErr(outcome')) => builders' = builders]_vars

----------------------------------------------------------------------------
(* C19: when the arity of BETWEEN is checked *)

\* The last call added a condition or a group
AddCall == call.op \in {"where", "filter"}
\* The condition the last call was given
AddedCondition ==
  IF call.op = "where" THEN Leaf(call.args[1], call.args[2], call.args[3]) ELSE call.args[1]
\* The BETWEEN conditions where() is given with a value of a wrong arity
WrongArityLeaves ==
  {Leaf(a[1], a[2], a[3]) : a \in {b \in WhereArgs : b[2] = "BETWEEN" /\ ~IsPair(b[3])}}

\* C19: where() and filter() never throw, whatever operator and value they
\* are given: they return a builder that holds the condition. A builder that
\* holds a BETWEEN condition of a wrong arity is extended like any other, and
\* the BETWEEN error is thrown by translate and translateWhere, nowhere else.
C19_BetweenAtTranslation ==
  /\ AddCall =>
       /\ outcome.k = "ref"
       /\ getFilters(builders[outcome.v]) = Append(getFilters(Receiver), AddedCondition)
  /\ call.op \in {"sortBy", "include"} => outcome.k = "ref"
  /\ call.op \in {"translate", "translateWhere"} =>
       (HoldsLeafOf(Receiver, WrongArityLeaves)
          <=> outcome = Err("BETWEEN operator value must be an array of 2 elements"))

\* where("status", BETWEEN, [18]) returned a builder, where() extended it, and
\* translate threw on the builder of the two conditions
C19_Witness ==
  /\ Threw("translate")
  /\ getFilters(Receiver) = <<Leaf(<<"status">>, "BETWEEN", Arr(<<Num(18)>>)),
                              Leaf(<<"status">>, "EQ", Str("active"))>>
  /\ outcome = Err("BETWEEN operator value must be an array of 2 elements")

----------------------------------------------------------------------------
(* C20: the dot-paths a builder holds *)

\* The field is not the empty string and none of its segments is empty
WellFormedPath(fld) ==
  /\ Len(fld) > 0
  /\ fld[1] # "."
  /\ fld[Len(fld)] # "."
  /\ \A i \in 1..(Len(fld) - 1) : ~(fld[i] = "." /\ fld[i + 1] = ".")

\* The fields of the condition c, at every depth
RECURSIVE FieldsOf(_)
FieldsOf(c) ==
  IF IsFilterGroup(c)
  THEN UNION {FieldsOf(c.conditions[i]) : i \in 1..Len(c.conditions)}
  ELSE {c.field}
\* The dot-paths the builder m holds
PathsOf(m) ==
  UNION {FieldsOf(getFilters(m)[i]) : i \in 1..Len(getFilters(m))}
  \cup {getSorts(m)[i].field : i \in 1..Len(getSorts(m))}

\* The empty string is a key of x, at some depth
RECURSIVE HasEmptyKey(_)
HasEmptyKey(x) ==
  IF IsPlainObject(x)
  THEN \E i \in 1..Len(x.v) : x.v[i].key = "" \/ HasEmptyKey(x.v[i].val)
  ELSE IF IsArray(x) THEN \E i \in 1..Len(x.v) : HasEmptyKey(x.v[i])
  ELSE FALSE

\* C20: every dot-path of a builder made through the accumulator (the field
\* of each condition, at any depth, and of each sort) is non-empty and has no
\* empty segment, so no where or orderBy object compiled from it has the
\* empty string as a key.
C20_WellFormedPaths ==
  /\ \A i \in 1..Len(builders) : \A fld \in PathsOf(builders[i]) : WellFormedPath(fld)
  /\ call.op \in {"translate", "translateWhere"} => ~HasEmptyKey(outcome)

----------------------------------------------------------------------------
(* C21: what each accumulator operation changes *)

\* The builder the last call returned
NewBuilder == builders[outcome.v]

\* C21: each accumulator operation appends at the end and touches only its
\* own component: filter/where adds its argument as the last filter and
\* leaves sorts, includes and pagination as they were, sortBy does so for the
\* sorts, include for the includes, paginate replaces only the pagination by
\* its arguments; the first builder holds nothing and page 1, limit 10, so
\* the getters list the arguments in call order.
C21_AppendOwnComponent ==
  /\ getFilters(builders[1]) = <<>>
  /\ getSorts(builders[1]) = <<>>
  /\ getIncludes(builders[1]) = <<>>
  /\ getPagination(builders[1]) = [page |-> 1, limit |-> 10]
  /\ (AddCall /\ ~IsErr(outcome)) =>
       /\ getFilters(NewBuilder) = getFilters(Receiver) \o <<AddedCondition>>
       /\ getSorts(NewBuilder) = getSorts(Receiver)
       /\ getIncludes(NewBuilder) = getIncludes(Receiver)
       /\ getPagination(NewBuilder) = getPagination(Receiver)
  /\ Returned("sortBy") =>
       /\ getSorts(NewBuilder) =
            getSorts(Receiver) \o <<[field |-> call.args[1], direction |-> call.args[2]]>>
       /\ getFilters(NewBuilder) = getFilters(Receiver)
       /\ getIncludes(NewBuilder) = getIncludes(Receiver)
       /\ getPagination(NewBuilder) = getPagination(Receiver)
  /\ Returned("include") =>
       /\ getIncludes(NewBuilder) = getIncludes(Receiver) \o <<call.args[1]>>
       /\ getFilters(NewBuilder) = getFilters(Receiver)
       /\ getSorts(NewBuilder) = getSorts(Receiver)
       /\ getPagination(NewBuilder) = getPagination(Receiver)
  /\ Returned("paginate") =>
       /\ getPagination(NewBuilder) = [page |-> call.args[1], limit |-> call.args[2]]
       /\ getFilters(NewBuilder) = getFilters(Receiver)
       /\ getSorts(NewBuilder) = getSorts(Receiver)
       /\ getIncludes(NewBuilder) = getIncludes(Receiver)

\* sortBy("name", DESC) on a builder sorted by name ASC: two sorts, in call
\* order
C21_Witness ==
  /\ Returned("sortBy")
  /\ call.args = <<<<"name">>, "DESC">>
  /\ getSorts(Receiver) = <<[field |-> <<"name">>, direction |-> "ASC"]>>
  /\ getSorts(NewBuilder) = <<[field |-> <<"name">>, direction |-> "ASC"],
                              [field |-> <<"name">>, direction |-> "DESC"]>>

----------------------------------------------------------------------------
(* C22: AND groups, merged or wrapped *)

\* The builder translated holds exactly one filter, an AND group, each child
\* of which compiles
OneAndGroup ==
  /\ WhereCall
  /\ Len(getFilters(Receiver)) = 1
  /\ IsFilterGroup(TheGroup)
  /\ TheGroup.operator = "AND"
  /\ \A i \in 1..Len(TheGroup.conditions) : Compiles(TheGroup.conditions[i])

\* The children of the group, each compiled alone
CompiledChildren ==
  [i \in 1..Len(TheGroup.conditions) |-> translateWhere(<<TheGroup.conditions[i]>>)]

\* r is the deep merge of a and b: a key of one operand only passes through,
\* a key of both recurses when both values are plain objects and the key is
\* no combinator, and otherwise holds the value of b
RECURSIVE IsDeepMerge(_, _, _)
IsDeepMerge(r, a, b) ==
  /\ IsPlainObject(r)
  /\ Keys(r) = Keys(a) \cup Keys(b)
  /\ Len(r.v) = Cardinality(Keys(r))
  /\ \A key \in Keys(r) :
       IF ~HasKey(b, key) THEN GetKey(r, key) = GetKey(a, key)
       ELSE IF ~HasKey(a, key) THEN GetKey(r, key) = GetKey(b, key)
       ELSE IF /\ key \notin {"AND", "OR", "NOT"}
               /\ IsPlainObject(GetKey(a, key))
               /\ IsPlainObject(GetKey(b, key))
       THEN IsDeepMerge(GetKey(r, key), GetKey(a, key), GetKey(b, key))
       ELSE GetKey(r, key) = GetKey(b, key)

\* r is the deep merge of the compiled conditions cs, from left to right
IsMergeOf(r, cs) ==
  IF Len(cs) = 0 THEN r = Obj(<<>>)
  ELSE IF Len(cs) = 1 THEN r = translateWhere(<<cs[1]>>)
  ELSE IsDeepMerge(r, translateWhere(<<Group("AND", SubSeq(cs, 1, Len(cs) - 1))>>),
                   translateWhere(<<cs[Len(cs)]>>))

\* C22: an AND group with children c1..cn compiles to {AND: [t1..tn]}, the
\* compiled children unmerged and in order, iff some compiled child ti has a
\* top-level key AND, OR or NOT; otherwise it compiles to the deep merge of
\* t1..tn, an object with no AND key.
C22_MergeOrWrap ==
  OneAndGroup =>
    LET t == CompiledChildren
        wrapped == Obj(<<Prop("AND", Arr(t))>>)
    IN IF \E i \in 1..Len(t) : HasLogicalKey(t[i])
       THEN WhereResult = wrapped
       ELSE /\ WhereResult # wrapped
            /\ IsPlainObject(WhereResult)
            /\ ~HasKey(WhereResult, "AND")
            /\ IsMergeOf(WhereResult, TheGroup.conditions)

\* AND of a condition on status and an OR group: wrapped, both children
\* kept whole
C22_Witness ==
  /\ OneAndGroup
  /\ TheGroup = Group("AND", <<Leaf(<<"status">>, "EQ", Str("active")),
                               Group("OR", <<Leaf(<<"status">>, "EQ", Str("active")),
                                             Leaf(<<"status">>, "EQ", Str("pending"))>>)>>)
  /\ WhereResult =
       Obj(<<Prop("AND", Arr(<<
         Obj(<<Prop("status", Obj(<<Prop("equals", Str("active"))>>))>>),
         Obj(<<Prop("OR", Arr(<<
           Obj(<<Prop("status", Obj(<<Prop("equals", Str("active"))>>))>>),
           Obj(<<Prop("status", Obj(<<Prop("equals", Str("pending"))>>))>>)>>))>>)>>))>>)

----------------------------------------------------------------------------
(* C23: the top-level list and the explicit AND group *)

\* The compilation of the explicit group {operator: AND, conditions: L}, L
\* the filter list of the builder translated
AsAndGroup == _translateFilterGroup(Group("AND", getFilters(Receiver)))

\* The list holds one filter, and its compilation carries a top-level key
\* AND, OR or NOT
SingleCombinator ==
  /\ Len(getFilters(Receiver)) = 1
  /\ IsPlainObject(WhereResult)
  /\ HasLogicalKey(WhereResult)

\* C23 as stated: for every non-empty list L of conditions and groups, of
\* any length >= 1 and any element kinds, translateWhere(L) equals the
\* compilation of the explicit group {operator: AND, conditions: L}.
C23_ListIsAndGroup == WhereCall => WhereResult = AsAndGroup

\* C23 amended: translateWhere(L) equals the compilation of the explicit AND
\* group for every list of two or more elements and for a single element
\* whose compilation has no top-level key AND, OR or NOT (or throws); a
\* single element whose compilation t has such a key compiles to t itself,
\* where the explicit group gives {AND: [t]}.
C23_ListIsAndGroupButSingle ==
  WhereCall =>
    IF SingleCombinator
    THEN AsAndGroup = Obj(<<Prop("AND", Arr(<<WhereResult>>))>>)
    ELSE WhereResult = AsAndGroup

\* A condition on status beside an OR group, at top level: wrapped as the
\* explicit AND group of the two is
C23_Witness ==
  /\ WhereCall
  /\ getFilters(Receiver) =
       <<Leaf(<<"status">>, "EQ", Str("active")),
         Group("OR", <<Leaf(<<"status">>, "EQ", Str("active")),
                       Leaf(<<"status">>, "EQ", Str("pending"))>>)>>
  /\ HasKey(WhereResult, "AND")
  /\ WhereResult = AsAndGroup

----------------------------------------------------------------------------
(* C24: sibling conditions on the same field path *)

\* Two or more leaf conditions merged side by side: no path has a segment
\* named AND, OR or NOT that it shares with another or starts with, and two
\* paths are equal or neither is a prefix of the other
MergedSiblings ==
  /\ LeafSiblings
  /\ NoCombinatorClash
  /\ \A i, j \in 1..Len(Siblings) :
       SiblingPath(i) # SiblingPath(j) => ~IsPrefix(SiblingPath(i), SiblingPath(j))

\* The siblings on the path of sibling j, and whether j is the last of them
SamePath(j) == {i \in 1..Len(Siblings) : SiblingPath(i) = SiblingPath(j)}
LastOnPath(j) == \A i \in SamePath(j) : i <= j

\* The last of the siblings in S whose fragment has the key
LastWithKey(S, key) ==
  CHOOSE i \in S :
    /\ HasKey(SiblingFragment(i), key)
    /\ \A n \in S : HasKey(SiblingFragment(n), key) => n <= i

----------------------------------------------------------------------------
(* C25: two conditions with the same path and the same fragment key *)

\* Siblings i < j on the same path whose fragments both have the key, no
\* later sibling on that path having it
Collide(i, j, key) ==
  /\ i < j
  /\ SiblingPath(i) = SiblingPath(j)
  /\ HasKey(SiblingFragment(i), key)
  /\ HasKey(SiblingFragment(j), key)
  /\ \A n \in SamePath(j) : HasKey(SiblingFragment(n), key) => n <= j

----------------------------------------------------------------------------
(* C26: GTE and LTE on one field *)

\* a and b are the same value, the order of the keys of objects left aside
RECURSIVE SameValue(_, _)
SameValue(a, b) ==
  IF IsPlainObject(a) /\ IsPlainObject(b)
  THEN /\ Keys(a) = Keys(b)
       /\ Len(a.v) = Len(b.v)
       /\ \A key \in Keys(a) : SameValue(GetKey(a, key), GetKey(b, key))
  ELSE IF IsArray(a) /\ IsArray(b)
  THEN /\ Len(a.v) = Len(b.v)
       /\ \A i \in 1..Len(a.v) : SameValue(a.v[i], b.v[i])
  ELSE a = b

\* The siblings are a GTE and an LTE condition on one field, in this order
\* (lo = 1) or the other (lo = 2)
GteLtePair(lo) ==
  /\ WhereCall
  /\ Len(Siblings) = 2
  /\ ~IsFilterGroup(Siblings[1])
  /\ ~IsFilterGroup(Siblings[2])
  /\ Siblings[lo].operator = "GTE"
  /\ Siblings[3 - lo].operator = "LTE"
  /\ Siblings[1].field = Siblings[2].field
  /\ SegmentsOf(Siblings[1].field)[1] \notin {"AND", "OR", "NOT"}

\* The compilation of the single condition field BETWEEN [a, b]
AsBetween(fld, a, b) == translateWhere(<<Leaf(fld, "BETWEEN", Arr(<<a, b>>))>>)

\* C26: a GTE a condition and an LTE b condition on the same field, merged
\* at top level or in an AND group in either order, compile to
\* {field: {gte: a, lte: b}}, the same clause as the single condition
\* field BETWEEN [a, b] (the order of the keys left aside).
C26_GteLteIsBetween ==
  \A lo \in {1, 2} :
    GteLtePair(lo) =>
      LET a == Siblings[lo].value
          b == Siblings[3 - lo].value
          o == At(WhereResult, SegmentsOf(Siblings[1].field))
      IN /\ IsPlainObject(o)
         /\ Keys(o) = {"gte", "lte"}
         /\ Len(o.v) = 2
         /\ GetKey(o, "gte") = a
         /\ GetKey(o, "lte") = b
         /\ SameValue(WhereResult, AsBetween(Siblings[1].field, a, b))
         /\ lo = 1 => WhereResult = AsBetween(Siblings[1].field, a, b)

\* status LTE 30 before status GTE 18 in an AND group:
\* {status: {lte: 30, gte: 18}}
C26_Witness ==
  /\ GteLtePair(2)
  /\ getFilters(Receiver) = <<Group("AND", <<Leaf(<<"status">>, "LTE", Num(30)),
                                             Leaf(<<"status">>, "GTE", Num(18))>>)>>
  /\ WhereResult =
       Obj(<<Prop("status", Obj(<<Prop("lte", Num(30)), Prop("gte", Num(18))>>))>>)

----------------------------------------------------------------------------
(* C27: the order of merged conditions *)

\* The compilation of the conditions cs put where the siblings are: as the
\* top-level list, or as the children of the only filter, an AND group
CompiledInPlace(cs) ==
  IF Len(getFilters(Receiver)) = 1
  THEN translateWhere(<<Group("AND", cs)>>)
  ELSE translateWhere(cs)

\* The where object is the same, the order of keys left aside, for every
\* permutation of the siblings
SameForEveryOrder ==
  \A f \in Permutations(1..Len(Siblings)) :
    SameValue(WhereResult, CompiledInPlace([i \in 1..Len(Siblings) |-> Siblings[f[i]]]))

\* No sibling is wrapped for a first segment named AND, OR or NOT
NoneWrapped ==
  \A i \in 1..Len(Siblings) : SiblingPath(i)[1] \notin {"AND", "OR", "NOT"}

----------------------------------------------------------------------------
(* C28: leaf conditions taken for groups *)

\* Sibling i is a leaf whose first path segment is AND, OR or NOT
NamedLikeGroup(i) == SiblingPath(i)[1] \in {"AND", "OR", "NOT"}

\* C28: a leaf condition whose first path segment is AND, OR or NOT
\* compiles to an object with that top-level key, and two or more leaf
\* conditions of which one is such a leaf, at top level or in an AND group,
\* are wrapped as {AND: [t1..tn]}, not merged; when no first segment is AND,
\* OR or NOT, a list of leaf conditions is never wrapped.
C28_GroupsByKeyName ==
  LeafSiblings =>
    IF \E i \in 1..Len(Siblings) : NamedLikeGroup(i)
    THEN /\ IsPlainObject(WhereResult)
         /\ Keys(WhereResult) = {"AND"}
         /\ Len(WhereResult.v) = 1
         /\ IsArray(GetKey(WhereResult, "AND"))
         /\ Len(GetKey(WhereResult, "AND").v) = Len(Siblings)
         /\ \A i \in 1..Len(Siblings) :
              LET t == GetKey(WhereResult, "AND").v[i]
              IN /\ OneKeyChain(t, SiblingPath(i), SiblingFragment(i))
                 /\ NamedLikeGroup(i) => HasKey(t, SiblingPath(i)[1])
    ELSE /\ IsPlainObject(WhereResult)
         /\ ~HasLogicalKey(WhereResult)
         /\ Keys(WhereResult) = {SiblingPath(i)[1] : i \in 1..Len(Siblings)}

\* status EQ "active" beside a condition on a field named OR, in an AND
\* group: wrapped
C28_Witness ==
  /\ LeafSiblings
  /\ getFilters(Receiver) =
       <<Group("AND", <<Leaf(<<"status">>, "EQ", Str("active")),
                        Leaf(<<"OR">>, "EQ", Num(18))>>)>>
  /\ WhereResult =
       Obj(<<Prop("AND", Arr(<<
         Obj(<<Prop("status", Obj(<<Prop("equals", Str("active"))>>))>>),
         Obj(<<Prop("OR", Obj(<<Prop("equals", Num(18))>>))>>)>>))>>)

----------------------------------------------------------------------------
(* C29: groups with no children *)

\* The builder translated holds exactly one filter, a group with no children
OneEmptyGroup ==
  /\ WhereCall
  /\ Len(getFilters(Receiver)) = 1
  /\ IsFilterGroup(TheGroup)
  /\ TheGroup.conditions = <<>>

IsEmptyAnd(c) == IsFilterGroup(c) /\ c.operator = "AND" /\ c.conditions = <<>>

\* Two or more siblings, one of them an empty AND group, that all compile
\* and are merged, none having a top-level key AND, OR or NOT
MergedWithEmptyAnd ==
  /\ WhereCall
  /\ Len(Siblings) >= 2
  /\ \E i \in 1..Len(Siblings) : IsEmptyAnd(Siblings[i])
  /\ \A i \in 1..Len(Siblings) :
       /\ Compiles(Siblings[i])
       /\ ~HasLogicalKey(translateWhere(<<Siblings[i]>>))

\* The siblings that are no empty AND group
OtherSiblings == SelectSeq(Siblings, LAMBDA c : ~IsEmptyAnd(c))

\* C29: groups with no children compile without error: an empty AND group
\* to {}, an empty OR or NOT group to {OR: []} or {NOT: []}; the bundle of a
\* builder whose only filter is an empty AND group has where present and
\* equal to {}; an empty AND group among merged siblings contributes
\* nothing to the merged object.
C29_EmptyGroups ==
  /\ OneEmptyGroup =>
       /\ ~IsErr(outcome)
       /\ TheGroup.operator = "AND" => WhereResult = Obj(<<>>)
       /\ TheGroup.operator = "OR" => WhereResult = Obj(<<Prop("OR", Arr(<<>>))>>)
       /\ TheGroup.operator = "NOT" => WhereResult = Obj(<<Prop("NOT", Arr(<<>>))>>)
       /\ call.op = "translate" => HasKey(outcome, "where")
  /\ MergedWithEmptyAnd =>
       WhereResult = translateWhere(<<Group("AND", OtherSiblings)>>)

\* A builder whose only filter is an empty AND group, with a sort, translated:
\* where is present and {}
C29_Witness ==
  /\ Returned("translate")
  /\ getFilters(Receiver) = <<Group("AND", <<>>)>>
  /\ Len(getSorts(Receiver)) > 0
  /\ HasKey(outcome, "where")
  /\ GetKey(outcome, "where") = Obj(<<>>)

====
